---- MODULE Spec2Model ----
(***************************************************************************)
(* Model of geostream.py: the GEO-field parser limpiar_coordenadas, the    *)
(* haversine distance calcular_distancia and the query pipeline of main    *)
(* (clean the GEO column, drop unparsable rows, compute distances, rank    *)
(* the five nearest rows, show the table and the statistics).              *)
(*                                                                         *)
(* A Python string is a sequence of one-character strings; the two words   *)
(* "nan" and "inf" are carried as single elements (they hold no ',', '-',  *)
(* ' ' or tab, so find/split/replace treat them exactly as the three       *)
(* characters they stand for).                                             *)
(* A Python float is a record [kind, num, exp]: kind "fin" is the decimal  *)
(* num * 10^-exp (trailing zeros removed), kinds "nan", "inf", "ninf" are  *)
(* the non-finite values, and kind "ValueError" is float() raising.        *)
(***************************************************************************)
EXTENDS Integers, Sequences, FiniteSets

VARIABLES
    pc,        \* position in main, or in the direct call of the parser
    geo,       \* argument of the direct call of limpiar_coordenadas
    parsed,    \* what that call returned
    excel,     \* the GEO column of GEOS.xlsx, in file order
    df,        \* the data frame: a sequence of rows, in table order
    objetivo,  \* punto_objetivo once the inputs are read
    cercanos,  \* the ranked result (rows of df, nearest first)
    errors,    \* st.error calls of the parser and of the distance function
    fatal      \* TRUE once main's generic "except Exception" ran

vars == <<pc, geo, parsed, excel, df, objetivo, cercanos, errors, fatal>>

-----------------------------------------------------------------------------
(* Bounds of the model. *)

\* longest raw string handed to the parser on its own
MaxLen == 5
\* longest table of the full pipeline
MaxRows == 3
\* longest table of the ranking runs
MaxRankRows == 6

-----------------------------------------------------------------------------
(* Python str operations used by the parser (indices are 0-based as in    *)
(* Python; -1 is "not found"). *)

Whitespace == {" ", "\t"}
Digits == {"0", "1", "2", "3", "4", "5", "6", "7", "8", "9"}

DigitValue(c) ==
    CASE c = "0" -> 0 [] c = "1" -> 1 [] c = "2" -> 2 [] c = "3" -> 3
      [] c = "4" -> 4 [] c = "5" -> 5 [] c = "6" -> 6 [] c = "7" -> 7
      [] c = "8" -> 8 [] c = "9" -> 9

\* s.replace(c, '')
RECURSIVE Replace(_, _)
Replace(s, c) ==
    IF s = <<>> THEN <<>>
    ELSE IF Head(s) = c THEN Replace(Tail(s), c)
    ELSE <<Head(s)>> \o Replace(Tail(s), c)

\* c in s
Contains(s, c) == \E i \in 1..Len(s) : s[i] = c

\* s.find(c, start)
Find(s, c, start) ==
    IF \E i \in (start + 1)..Len(s) : s[i] = c
    THEN (CHOOSE i \in (start + 1)..Len(s) :
              /\ s[i] = c
              /\ \A j \in (start + 1)..(i - 1) : s[j] # c) - 1
    ELSE -1

\* s[:p]
SliceTo(s, p) == SubSeq(s, 1, p)

\* s[p:]
SliceFrom(s, p) == SubSeq(s, p + 1, Len(s))

\* s.startswith(c)
StartsWith(s, c) == Len(s) >= 1 /\ s[1] = c

\* s.split(c): every c separates two tokens, empty tokens are kept
RECURSIVE Split(_, _)
Split(s, c) ==
    LET p == Find(s, c, 0)
    IN  IF p = -1 THEN <<s>>
        ELSE <<SliceTo(s, p)>> \o Split(SliceFrom(s, p + 1), c)

-----------------------------------------------------------------------------
(* Python float(token). *)

ValueError == [kind |-> "ValueError", num |-> 0, exp |-> 0]
NaN        == [kind |-> "nan", num |-> 0, exp |-> 0]
Inf        == [kind |-> "inf", num |-> 0, exp |-> 0]
NegInf     == [kind |-> "ninf", num |-> 0, exp |-> 0]

\* float() ignores leading and trailing whitespace
RECURSIVE LStrip(_)
LStrip(s) ==
    IF s # <<>> /\ Head(s) \in Whitespace THEN LStrip(Tail(s)) ELSE s

RECURSIVE RStrip(_)
RStrip(s) ==
    IF s # <<>> /\ s[Len(s)] \in Whitespace
    THEN RStrip(SubSeq(s, 1, Len(s) - 1)) ELSE s

Strip(s) == RStrip(LStrip(s))

RECURSIVE DigitsToInt(_)
DigitsToInt(s) ==
    IF s = <<>> THEN 0
    ELSE 10 * DigitsToInt(SubSeq(s, 1, Len(s) - 1)) + DigitValue(s[Len(s)])

\* the decimal num * 10^-exp with its trailing zeros removed
RECURSIVE Decimal(_, _)
Decimal(num, exp) ==
    IF num = 0 THEN [kind |-> "fin", num |-> 0, exp |-> 0]
    ELSE IF exp > 0 /\ num % 10 = 0 THEN Decimal(num \div 10, exp - 1)
    ELSE [kind |-> "fin", num |-> num, exp |-> exp]

\* digits with at most one '.', at least one digit: "12", "1.5", ".5", "5."
IsDecimalLiteral(s) ==
    /\ \A i \in 1..Len(s) : s[i] \in Digits \cup {"."}
    /\ Cardinality({i \in 1..Len(s) : s[i] = "."}) <= 1
    /\ \E i \in 1..Len(s) : s[i] \in Digits

\* float(token): optional sign, then "nan", "inf" or a decimal literal;
\* anything else raises ValueError.  Exponents ("1e5"), digit-group
\* underscores and the spelling "infinity" do not occur in the strings of
\* this model.
float(token) ==
    LET s    == Strip(token)
        neg  == StartsWith(s, "-")
        body == IF StartsWith(s, "-") \/ StartsWith(s, "+") THEN Tail(s) ELSE s
    IN  IF body = <<"nan">> THEN NaN
        ELSE IF body = <<"inf">> THEN (IF neg THEN NegInf ELSE Inf)
        ELSE IF IsDecimalLiteral(body)
        THEN LET dot  == Find(body, ".", 0)
                 frac == IF dot = -1 THEN 0 ELSE Len(body) - dot - 1
                 mag  == DigitsToInt(Replace(body, "."))
             IN  Decimal(IF neg THEN 0 - mag ELSE mag, frac)
        ELSE ValueError

-----------------------------------------------------------------------------
(* limpiar_coordenadas *)

None == <<>>

\* SplitCoords with line 45 replaced by the split its comment considers
\* ("buscar punto decimal para dividir"): a string with no ',' and no '-'
\* is cut at its first '.'
SplitCoords_punto(geo_str) ==
    IF Contains(geo_str, ",")
    THEN Split(geo_str, ",")
    ELSE IF Find(geo_str, "-", 0) # -1
         THEN LET p == IF StartsWith(geo_str, "-") /\ Find(geo_str, "-", 1) # -1
                       THEN Find(geo_str, "-", 1) ELSE Find(geo_str, "-", 0)
              IN  <<SliceTo(geo_str, p), SliceFrom(geo_str, p)>>
         ELSE IF Find(geo_str, ".", 0) # -1
              THEN <<SliceTo(geo_str, Find(geo_str, ".", 0)),
                     SliceFrom(geo_str, Find(geo_str, ".", 0))>>
              ELSE <<>>

\* SplitCoords with line 26 searching from index 0 instead of 1: a string
\* with no ',' is always cut at its first '-'
SplitCoords_primer_menos(geo_str) ==
    IF Contains(geo_str, ",")
    THEN Split(geo_str, ",")
    ELSE LET menos_pos == Find(geo_str, "-", 0)
         IN  IF menos_pos # -1
             THEN <<SliceTo(geo_str, menos_pos), SliceFrom(geo_str, menos_pos)>>
             ELSE <<>>

\* lines 19-45: the two tokens, or <<>> on the paths that return None
\* without raising
SplitCoords(geo_str) ==
    IF Contains(geo_str, ",")
    THEN Split(geo_str, ",")
    ELSE IF StartsWith(geo_str, "-")
         THEN LET segundo_menos == Find(geo_str, "-", 1)
              IN  IF segundo_menos # -1
                  THEN <<SliceTo(geo_str, segundo_menos),
                         SliceFrom(geo_str, segundo_menos)>>
                  ELSE LET menos_pos == Find(geo_str, "-", 0)
                       IN  IF menos_pos # -1
                           THEN <<SliceTo(geo_str, menos_pos),
                                  SliceFrom(geo_str, menos_pos)>>
                           ELSE <<>>
         ELSE LET menos_pos == Find(geo_str, "-", 0)
              IN  IF menos_pos # -1
                  THEN <<SliceTo(geo_str, menos_pos),
                         SliceFrom(geo_str, menos_pos)>>
                  ELSE <<>>

\* value: the list [lat, lon] or None; reported: st.error was called
limpiar_coordenadas(raw) ==
    LET geo_str == Replace(raw, " ")
        coords  == SplitCoords(geo_str)
    IN  IF coords = <<>>
        THEN [value |-> None, reported |-> FALSE]
        ELSE LET lat == float(coords[1])
                 lon == float(coords[2])
             IN  IF lat = ValueError \/ lon = ValueError
                 THEN [value |-> None, reported |-> TRUE]
                 ELSE [value |-> <<lat, lon>>, reported |-> FALSE]

-----------------------------------------------------------------------------
(* calcular_distancia *)

\* Earth radius in km
R == 6371

\* x - y on floats; only the kind matters for a non-finite result
FSub(x, y) ==
    IF x.kind = "nan" \/ y.kind = "nan" THEN NaN
    ELSE IF x.kind = "fin" /\ y.kind = "fin"
    THEN LET e == IF x.exp >= y.exp THEN x.exp ELSE y.exp
         IN  Decimal(x.num * 10^(e - x.exp) - y.num * 10^(e - y.exp), e)
    ELSE IF x.kind = "fin" THEN (IF y.kind = "inf" THEN NegInf ELSE Inf)
    ELSE IF y.kind = "fin" THEN x
    ELSE IF x.kind = y.kind THEN NaN
    ELSE x

Abs(n) == IF n < 0 THEN 0 - n ELSE n

\* Great-circle distance of two finite points of one meridian, in metres:
\* with dlon = 0 the formula gives a = sin^2(dlat/2) and
\* c = 2*atan2(|sin(dlat/2)|, |cos(dlat/2)|) = |dlat| (for |dlat| <= 180
\* degrees), so R*c = R * radians(|lat2 - lat1|).  radians(1) = 0.0174533.
\* The tables of this model keep every finite point on the meridian of the
\* target; the operator is left undefined elsewhere.
Haversine(lat1, lon1, lat2, lon2) ==
    LET dlat == FSub(lat2, lat1)
    IN  CASE lon1 = lon2 /\ Abs(dlat.num) <= 180 * 10^dlat.exp ->
            (((R * 174533) \div 10000) * Abs(dlat.num)) \div 10^dlat.exp

\* value: the distance (a float in km, carried in metres), or NaN;
\* reported: the except branch ran (st.error, return np.nan).
\* math.sin and math.cos raise ValueError on an infinite argument and return
\* nan on a nan argument; sqrt, atan2 and the arithmetic propagate nan.
calcular_distancia(coord1, coord2) ==
    LET lat1 == coord1[1]
        lon1 == coord1[2]
        lat2 == coord2[1]
        lon2 == coord2[2]
        dlat == FSub(lat2, lat1)
        dlon == FSub(lon2, lon1)
        infinite(x) == x.kind \in {"inf", "ninf"}
    IN  IF infinite(dlat) \/ infinite(lat1) \/ infinite(lat2) \/ infinite(dlon)
        THEN [value |-> NaN, reported |-> TRUE]
        ELSE IF \E x \in {dlat, lat1, lat2, dlon} : x.kind = "nan"
        THEN [value |-> NaN, reported |-> FALSE]
        ELSE [value |-> Decimal(Haversine(lat1, lon1, lat2, lon2), 3),
              reported |-> FALSE]

-----------------------------------------------------------------------------
(* pandas operations of main *)

\* a row of the frame: its index label, the GEO cell, and the two columns
\* main adds (None / NaN until they are computed)
Row(i, s) == [idx |-> i, GEO |-> s, Coordenadas_Limpias |-> None, Distancia |-> NaN]

\* df[col].apply(f) for f returning [value, reported]: the new column and
\* the raw cells f reported, in row order
RECURSIVE ApplyLimpiar(_)
ApplyLimpiar(rows) ==
    IF rows = <<>> THEN [rows |-> <<>>, reported |-> <<>>]
    ELSE LET r    == limpiar_coordenadas(Head(rows).GEO)
             rest == ApplyLimpiar(Tail(rows))
         IN  [rows |-> <<[Head(rows) EXCEPT !.Coordenadas_Limpias = r.value]>>
                          \o rest.rows,
              reported |-> (IF r.reported THEN <<Head(rows).GEO>> ELSE <<>>)
                              \o rest.reported]

RECURSIVE ApplyDistancia(_, _)
ApplyDistancia(rows, punto_objetivo) ==
    IF rows = <<>> THEN [rows |-> <<>>, reported |-> <<>>]
    ELSE LET x    == Head(rows).Coordenadas_Limpias
             r    == IF x # None THEN calcular_distancia(punto_objetivo, x)
                     ELSE [value |-> NaN, reported |-> FALSE]
             rest == ApplyDistancia(Tail(rows), punto_objetivo)
         IN  [rows |-> <<[Head(rows) EXCEPT !.Distancia = r.value]>> \o rest.rows,
              reported |-> (IF r.reported THEN <<Head(rows).GEO>> ELSE <<>>)
                              \o rest.reported]

\* df.dropna(subset=['Coordenadas_Limpias'])
RECURSIVE dropna_coords(_)
dropna_coords(rows) ==
    IF rows = <<>> THEN <<>>
    ELSE IF Head(rows).Coordenadas_Limpias = None THEN dropna_coords(Tail(rows))
    ELSE <<Head(rows)>> \o dropna_coords(Tail(rows))

\* df.dropna(subset=['Distancia'])
RECURSIVE dropna_dist(_)
dropna_dist(rows) ==
    IF rows = <<>> THEN <<>>
    ELSE IF Head(rows).Distancia = NaN THEN dropna_dist(Tail(rows))
    ELSE <<Head(rows)>> \o dropna_dist(Tail(rows))

\* order of two finite distances (both carried with exp <= 3)
Metres(d) == d.num * 10^(3 - d.exp)
DistLeq(a, b) == Metres(a.Distancia) <= Metres(b.Distancia)

Range(s) == {s[i] : i \in 1..Len(s)}

\* sort_values('Distancia') with the default kind='quicksort': the rows in
\* non-decreasing distance; the order of rows of equal distance is not
\* fixed by that algorithm, so every such order is a possible result.
RECURSIVE SortedOrders(_)
SortedOrders(S) ==
    IF S = {} THEN {<<>>}
    ELSE UNION { {<<m>> \o t : t \in SortedOrders(S \ {m})} :
                 m \in {x \in S : \A y \in S : DistLeq(x, y)} }

\* sort_values that leaves the rows as they are
sort_values_unsorted(rows) == {rows}

sort_values(rows) == SortedOrders(Range(rows))

\* head that does not cut the frame
head_all(rows, n) == rows

\* .head(n)
head(rows, n) == SubSeq(rows, 1, IF Len(rows) < n THEN Len(rows) ELSE n)

\* number of rows main ranks
TopN == 5

-----------------------------------------------------------------------------
(* Inputs *)

\* characters of the raw strings handed to the parser on its own
Alphabet == {"1", "2", ".", "-", ",", " ", "\t", "nan", "inf"}

Strings == UNION { [1..n -> Alphabet] : n \in 0..MaxLen }

\* GEO cells of the tables of the full pipeline (target longitude -1):
\* "1,-1"  "3-1"  "-1-1"  "1, -1,2"  "abc"  "-2"  "nan,-1"  "inf-1"
GeoCells ==
    { <<"1", ",", "-", "1">>, <<"3", "-", "1">>, <<"-", "1", "-", "1">>,
      <<"1", ",", " ", "-", "1", ",", "2">>,
      <<"a", "b", "c">>, <<"-", "2">>,
      <<"nan", ",", "-", "1">>, <<"inf", "-", "1">> }

\* GEO cells of the ranking runs: "1,-1"  "2-1"  "3-1"  "abc"  "nan,-1"
RankCells ==
    { <<"1", ",", "-", "1">>, <<"2", "-", "1">>, <<"3", "-", "1">>,
      <<"a", "b", "c">>, <<"nan", ",", "-", "1">> }

\* the Latitud and Longitud text inputs
Latitudes == { <<"1">>, <<"2">> }
RankLatitudes == { <<"1">> }
Longitudes == { <<"-", "1">> }

Tables(cells, n) == UNION { [1..k -> cells] : k \in 0..n }

\* pd.read_excel: the rows in file order, labelled 0, 1, 2, ...
read_excel(table) == [i \in 1..Len(table) |-> Row(i - 1, table[i])]

-----------------------------------------------------------------------------
(* The parser called on its own *)

InitParse ==
    /\ pc = "call"
    /\ geo = <<>>
    /\ parsed = None
    /\ excel = <<>>
    /\ df = <<>>
    /\ objetivo = None
    /\ cercanos = <<>>
    /\ errors = <<>>
    /\ fatal = FALSE

LimpiarCall ==
    /\ pc = "call"
    /\ \E s \in Strings :
         LET r == limpiar_coordenadas(s)
         IN  /\ geo' = s
             /\ parsed' = r.value
             /\ errors' = IF r.reported THEN Append(errors, s) ELSE errors
    /\ pc' = "returned"
    /\ UNCHANGED <<excel, df, objetivo, cercanos, fatal>>

NextParse == LimpiarCall

SpecParse == InitParse /\ [][NextParse]_vars

-----------------------------------------------------------------------------
(* main *)

Init ==
    /\ pc = "start"
    /\ geo = <<>>
    /\ parsed = None
    /\ excel = <<>>
    /\ df = <<>>
    /\ objetivo = None
    /\ cercanos = <<>>
    /\ errors = <<>>
    /\ fatal = FALSE

\* line 82
ReadExcel(tables) ==
    /\ pc = "start"
    /\ \E t \in tables :
         /\ excel' = t
         /\ df' = read_excel(t)
    /\ pc' = "loaded"
    /\ UNCHANGED <<geo, parsed, objetivo, cercanos, errors, fatal>>

\* line 82 raising FileNotFoundError, lines 173-175
FileNotFound ==
    /\ pc = "start"
    /\ pc' = "no_file"
    /\ UNCHANGED <<geo, parsed, excel, df, objetivo, cercanos, errors, fatal>>

\* lines 85-88
LimpiarColumna ==
    /\ pc = "loaded"
    /\ LET r == ApplyLimpiar(df)
       IN  /\ df' = dropna_coords(r.rows)
           /\ errors' = errors \o r.reported
    /\ pc' = "clean"
    /\ UNCHANGED <<geo, parsed, excel, objetivo, cercanos, fatal>>

\* lines 96-108
Consulta(latitudes) ==
    /\ pc = "clean"
    /\ \E latitud \in latitudes, longitud \in Longitudes :
         LET punto_objetivo == <<float(latitud), float(longitud)>>
             r == ApplyDistancia(df, punto_objetivo)
         IN  /\ objetivo' = punto_objetivo
             /\ df' = r.rows
             /\ errors' = errors \o r.reported
    /\ pc' = "distances"
    /\ UNCHANGED <<geo, parsed, excel, cercanos, fatal>>

\* line 111
Ordenar ==
    /\ pc = "distances"
    /\ \E sorted \in sort_values(dropna_dist(df)) :
         cercanos' = head(sorted, TopN)
    /\ pc' = "ranked"
    /\ UNCHANGED <<geo, parsed, excel, df, objetivo, errors, fatal>>

\* lines 113-171: the table, the map and the three metrics;
\* cercanos.iloc[0] (line 166) raises IndexError on an empty result,
\* which lines 176-178 catch
Mostrar ==
    /\ pc = "ranked"
    /\ IF cercanos = <<>>
       THEN /\ fatal' = TRUE
            /\ pc' = "error"
       ELSE /\ fatal' = FALSE
            /\ pc' = "done"
    /\ UNCHANGED <<geo, parsed, excel, df, objetivo, cercanos, errors>>

Next ==
    \/ ReadExcel(Tables(GeoCells, MaxRows))
    \/ FileNotFound
    \/ LimpiarColumna
    \/ Consulta(Latitudes)
    \/ Ordenar
    \/ Mostrar

Spec == Init /\ [][Next]_vars

NextRank ==
    \/ ReadExcel(Tables(RankCells, MaxRankRows))
    \/ FileNotFound
    \/ LimpiarColumna
    \/ Consulta(RankLatitudes)
    \/ Ordenar
    \/ Mostrar

SpecRank == Init /\ [][NextRank]_vars

-----------------------------------------------------------------------------
(* Properties of limpiar_coordenadas, checked under SpecParse *)

\* the string with every whitespace character removed
RECURSIVE RemoveWhitespace(_)
RemoveWhitespace(s) ==
    IF s = <<>> THEN <<>>
    ELSE IF Head(s) \in Whitespace THEN RemoveWhitespace(Tail(s))
    ELSE <<Head(s)>> \o RemoveWhitespace(Tail(s))

\* a float that is neither nan nor an infinity
IsFinite(f) == f.kind = "fin"

\* -x for a finite float
Neg(f) == Decimal(0 - f.num, f.exp)

\* C4: every pair limpiar_coordenadas returns holds two finite numbers; a
\* 'nan' or 'inf' token gives None.
C4_ParsedIsFinite ==
    (pc = "returned" /\ parsed # None)
        => (IsFinite(parsed[1]) /\ IsFinite(parsed[2]))

\* C5: a raw string that, with its whitespace removed, has no ',' and no '-'
\* at an index >= 1 (so also a lone negative number, which takes the
\* fallback of lines 31-33) makes limpiar_coordenadas return None.
C5_NoDelimiterFails ==
    pc = "returned" =>
        LET s == RemoveWhitespace(geo)
        IN  (~Contains(s, ",") /\ \A i \in 2..Len(s) : s[i] # "-")
                => parsed = None

\* the fallback path is taken: a lone negative decimal such as "-1.2"
C5_Witness ==
    /\ pc = "returned"
    /\ Len(geo) >= 3
    /\ StartsWith(geo, "-")
    /\ IsDecimalLiteral(Tail(geo))
    /\ Contains(geo, ".")
    /\ parsed = None
    /\ errors = <<geo>>

\* C8: limpiar_coordenadas gives the same outcome on a raw string and on
\* that string with its whitespace (spaces, tabs) removed, hence the same
\* outcome on any two strings that differ only in whitespace.
C8_WhitespaceInsensitive ==
    pc = "returned" =>
        parsed = limpiar_coordenadas(RemoveWhitespace(geo)).value

\* C9: with a ',' in the stripped string, limpiar_coordenadas returns a pair
\* only if the split gives exactly two tokens.
C9_ExactlyTwoTokens ==
    (pc = "returned" /\ Contains(Replace(geo, " "), ",") /\ parsed # None)
        => Len(Split(Replace(geo, " "), ",")) = 2

\* C10: for a stripped string s with no ',': if s starts with '-' and has
\* another '-', it is cut at the first '-' of index >= 1; if s does not start
\* with '-', it is cut at its first '-'; the longitude token begins with '-';
\* and '-A-B' gives (-A, -B), 'A-B' gives (A, -B) for decimal numerals A, B.
\* (s is the raw string without its spaces; raw strings holding other
\* whitespace are the subject of C8.)
C10_SignSplit ==
    (pc = "returned" /\ ~Contains(geo, "\t") /\ ~Contains(geo, ","))
    => LET s == Replace(geo, " ")
           Outcome(lat, lon) ==
               IF float(lat) = ValueError \/ float(lon) = ValueError
               THEN None ELSE <<float(lat), float(lon)>>
           A(p) == SubSeq(s, IF StartsWith(s, "-") THEN 2 ELSE 1, p - 1)
           B(p) == SubSeq(s, p + 1, Len(s))
       IN  /\ \A p \in 2..Len(s) :
                (s[p] = "-" /\ \A j \in 2..(p - 1) : s[j] # "-")
                => /\ parsed = Outcome(SubSeq(s, 1, p - 1), SubSeq(s, p, Len(s)))
                   /\ StartsWith(SubSeq(s, p, Len(s)), "-")
           /\ \A p \in 2..Len(s) :
                (s[p] = "-" /\ IsDecimalLiteral(A(p)) /\ IsDecimalLiteral(B(p)))
                => parsed = <<IF StartsWith(s, "-") THEN Neg(float(A(p)))
                                                    ELSE float(A(p)),
                              Neg(float(B(p)))>>

\* "-1 -2" parsed to (-1, -2)
C10_Witness ==
    /\ pc = "returned"
    /\ Contains(geo, " ")
    /\ StartsWith(Replace(geo, " "), "-")
    /\ ~Contains(geo, ",")
    /\ parsed = <<Decimal(0 - 1, 0), Decimal(0 - 2, 0)>>

-----------------------------------------------------------------------------
(* Properties of the query pipeline of main *)

Min(a, b) == IF a < b THEN a ELSE b

\* the coordinate pair of row i of the file (1-based), or None
CoordsOf(i) == limpiar_coordenadas(excel[i]).value

\* the valid records: the rows of the frame (those whose GEO cell parsed)
\* whose computed distance is defined
ValidRows == {df[j] : j \in {n \in 1..Len(df) : df[n].Distancia # NaN}}

\* the ranking step (line 111) has run
Ranked == pc = "ranked"

\* C1: the ranked result has exactly min(5, number of valid records) rows,
\* and the ranking step itself does not fail.
C1_RankLength ==
    Ranked => /\ Len(cercanos) = Min(5, Cardinality(ValidRows))
              /\ ~fatal

\* fewer than five valid records, beside a row that did not parse and a row
\* whose distance is undefined
C1_Witness ==
    /\ Ranked
    /\ Len(excel) = 6
    /\ Len(df) = 5
    /\ Cardinality(ValidRows) = 4
    /\ Len(cercanos) = 4

\* C2: the ranked result holds valid records, each once, in non-decreasing
\* distance, and no valid record left out is strictly nearer than one that
\* is in it.
C2_SortedTopK ==
    Ranked =>
        /\ \A k \in 1..Len(cercanos) : cercanos[k] \in ValidRows
        /\ \A j, k \in 1..Len(cercanos) :
             j < k => /\ cercanos[j] # cercanos[k]
                      /\ Metres(cercanos[j].Distancia)
                             <= Metres(cercanos[k].Distancia)
        /\ \A r \in ValidRows \ Range(cercanos) : \A k \in 1..Len(cercanos) :
             ~(Metres(r.Distancia) < Metres(cercanos[k].Distancia))

\* more than five valid records in an order that is not the ranked one: the
\* first row of the file is left out, being farther than the five kept
C2_Witness ==
    /\ Ranked
    /\ Cardinality(ValidRows) >= 6
    /\ Len(cercanos) = 5
    /\ df[1] \in ValidRows \ Range(cercanos)
    /\ Metres(df[1].Distancia) > Metres(cercanos[5].Distancia)
    /\ Metres(cercanos[1].Distancia) < Metres(cercanos[5].Distancia)

\* C3: records of equal distance keep their file order in the ranked result,
\* and of two such records cut apart at position 5 the earlier one is kept.
C3_StableRanking ==
    Ranked =>
        /\ \A j, k \in 1..Len(cercanos) :
             (j < k /\ cercanos[j].Distancia = cercanos[k].Distancia)
                 => cercanos[j].idx < cercanos[k].idx
        /\ \A r \in ValidRows \ Range(cercanos) : \A k \in 1..Len(cercanos) :
             r.Distancia = cercanos[k].Distancia => cercanos[k].idx < r.idx

\* C6: every row dropped for an unparsable GEO cell was reported with its raw
\* string (as many reports as dropped rows), and every row that parses is
\* kept whatever the other rows are.
C6_EveryFailureReported ==
    pc = "clean" =>
        /\ Len(errors) = Len(excel) - Len(df)
        /\ \A i \in 1..Len(excel) :
             CoordsOf(i) = None => \E j \in 1..Len(errors) : errors[j] = excel[i]
        /\ \A i \in 1..Len(excel) :
             CoordsOf(i) # None => \E j \in 1..Len(df) : df[j].idx = i - 1

\* C7: a query over a table with no valid record ends with an empty ranked
\* result and without reaching the generic error state of main.
C7_EmptyResultNoError ==
    (pc \in {"done", "error"} /\ ValidRows = {})
        => (cercanos = <<>> /\ ~fatal /\ pc = "done")

====
